---- MODULE Spec2Model ----
(***************************************************************************)
(* Model of src/query/table_strategy.rs (odbc2parquet): TableStrategy::new, *)
(* allocate_fetch_buffer, parquet_schema and block_cursor_to_parquet, with  *)
(* the ODBC cursor and the parquet sink as nondeterministic collaborators.  *)
(***************************************************************************)
EXTENDS Integers, Sequences, FiniteSets, TLC

\* ---------------------------------------------------------------- bounds
MaxCols == 2        \* most columns a described result set reports
MaxBatches == 2     \* most batches a cursor yields before end of data
MaxRows == 2        \* largest explicit row-count limit
MaxCeiling == 24    \* largest memory ceiling in bytes

\* ParquetBuffer::MEMORY_USAGE_BYTES_PER_ROW (parquet_buffer.rs, not in src/)
MEMORY_USAGE_BYTES_PER_ROW == 8

\* names a driver may report for a column; "" is an empty / unavailable name
Names == {"", "amount"}
\* bytes_per_row of the buffer descriptors the strategies may choose
ByteCosts == {1, 2}
\* compressed sizes a closed row group may report
CompressedSizes == {1, 2}

\* ---------------------------------------------------------------- Option / Result
None == <<>>
Some(x) == <<x>>
IsSome(o) == Len(o) = 1
Unwrap(o) == o[1]

\* anyhow::Error : the chain of context messages (outermost first) over a cause.
\* A message is the sequence of the pieces format! joins.
Error(cause) == [context |-> <<>>, cause |-> cause]
WithContext(e, msg) == [e EXCEPT !.context = <<msg>> \o @]
Ok == [ok |-> TRUE, error |-> Error("none")]
Err(e) == [ok |-> FALSE, error |-> e]

\* every piece of every message of the error's Display chain
MessagePieces(e) == UNION {{e.context[i][j] : j \in 1..Len(e.context[i])} : i \in 1..Len(e.context)}

\* ---------------------------------------------------------------- helpers
RECURSIVE Sum(_)
Sum(s) == IF s = <<>> THEN 0 ELSE Head(s) + Sum(Tail(s))

Max(a, b) == IF a >= b THEN a ELSE b

\* all sequences over S of length 0..n
SeqsUpTo(S, n) == UNION {[1..k -> S] : k \in 0..n}

\* ---------------------------------------------------------------- state
VARIABLES
    source,             \* ResultSetMetadata: the column descriptions the driver reports
    pc,                 \* position of the running operation
    index,              \* TableStrategy::new: loop variable, 1-based
    described,          \* indices passed to describe_col by TableStrategy::new
    columns,            \* TableStrategy.columns : Vec<(String, Box<dyn ColumnStrategy>)>
    parquet_schema,     \* TableStrategy.parquet_schema : Option of the root group's fields
    new_result,         \* Option<Result> of TableStrategy::new
    batch_size,         \* Option: argument of the allocate_fetch_buffer call just made
    fetch_buffer,       \* Option<ColumnarAnyBuffer> bound to the row set cursor
    writer,             \* Option<sink>: Box<dyn ParquetOutput>
    fetched,            \* row_set_cursor: number of batches delivered so far
    num_batch,
    total_rows_fetched,
    pb,                 \* ParquetBuffer
    col_index,
    num_rows,
    col_name,
    metadata,           \* Option: metadata of the row group just closed
    result,             \* Option<Result> of block_cursor_to_parquet
    trace               \* calls made on the cursor and the sink by the current drive

tableVars == <<columns, parquet_schema, new_result>>
newVars == <<index, described>>
driveVars == <<fetched, num_batch, total_rows_fetched, pb, col_index, num_rows,
               col_name, metadata, result, trace>>
vars == <<source, pc, index, described, columns, parquet_schema, new_result, batch_size,
          fetch_buffer, writer, fetched, num_batch, total_rows_fetched, pb, col_index,
          num_rows, col_name, metadata, result, trace>>

ColumnDescriptions == [name : Names, bytes : ByteCosts]

Init ==
    /\ source \in SeqsUpTo(ColumnDescriptions, MaxCols)
    /\ pc = "new"
    /\ index = 0
    /\ described = <<>>
    /\ columns = <<>>
    /\ parquet_schema = None
    /\ new_result = None
    /\ batch_size = None
    /\ fetch_buffer = None
    /\ writer = None
    /\ fetched = 0
    /\ num_batch = 0
    /\ total_rows_fetched = 0
    /\ pb = [capacity |-> 0, num_rows_fetched |-> 0]
    /\ col_index = 0
    /\ num_rows = 0
    /\ col_name = ""
    /\ metadata = None
    /\ result = None
    /\ trace = <<>>

\* ---------------------------------------------------------------- TableStrategy::new

\* format!("Column{index}")
GeneratedName(i) == "Column" \o ToString(i)

\* ColumnName with the generated name counting columns from 0
ColumnName_ZeroBased(cd, i) == IF cd.name = "" THEN GeneratedName(i - 1) ELSE cd.name

\* lines 41-47: the reported name, or a generated one should it be empty
ColumnName(cd, i) == IF cd.name = "" THEN GeneratedName(i) ELSE cd.name

\* strategy_from_column_description: the strategy chosen for column i; its buffer
\* descriptor costs cd.bytes per row
StrategyFromColumnDescription(cd, i) == [col |-> i, bytes_per_row |-> cd.bytes]

\* ColumnStrategy::parquet_type(name): the schema node of the column
ParquetType(s, name) == [name |-> name, col |-> s.col]

\* BuildSchema collecting the fields in reverse
BuildSchema_Reversed(cols) ==
    [i \in 1..Len(cols) |-> ParquetType(cols[Len(cols) + 1 - i].strategy,
                                        cols[Len(cols) + 1 - i].name)]

\* lines 58-67: one field per entry of columns, in order, under the root group
BuildSchema(cols) == [i \in 1..Len(cols) |-> ParquetType(cols[i].strategy, cols[i].name)]

NewFail(cause) ==
    /\ new_result' = Some(Err(Error(cause)))
    /\ pc' = "new_failed"

\* lines 29-31: num_result_cols()?, columns = Vec::new()
NewStart ==
    /\ pc = "new"
    /\ \E ok \in BOOLEAN :
         IF ok
         THEN /\ index' = 1
              /\ pc' = "describe"
              /\ UNCHANGED new_result
         ELSE /\ NewFail("num_result_cols")
              /\ UNCHANGED index
    /\ UNCHANGED <<source, described, columns, parquet_schema, batch_size, fetch_buffer,
                   writer, driveVars>>

\* lines 33-52: one iteration of the loop over 1..num_cols
DescribeCol ==
    /\ pc = "describe"
    /\ index <= Len(source)
    /\ described' = Append(described, index)
    /\ \E outcome \in {"ok", "describe_col", "name_to_string", "strategy"} :
         IF outcome = "ok"
         THEN LET cd == source[index]
                  name == ColumnName(cd, index)
              IN /\ columns' = Append(columns,
                        [name |-> name, strategy |-> StrategyFromColumnDescription(cd, index)])
                 /\ index' = index + 1
                 /\ UNCHANGED <<pc, new_result>>
         ELSE /\ NewFail(outcome)
              /\ UNCHANGED <<columns, index>>
    /\ UNCHANGED <<source, parquet_schema, batch_size, fetch_buffer, writer, driveVars>>

\* NewFinish without the check of lines 54-56
NewFinish_NoEmptyCheck ==
    /\ pc = "describe"
    /\ index > Len(source)
    /\ parquet_schema' = Some(BuildSchema(columns))
    /\ new_result' = Some(Ok)
    /\ pc' = "ready"
    /\ UNCHANGED <<source, index, described, columns, batch_size, fetch_buffer, writer,
                   driveVars>>

\* lines 54-69: the loop is over; bail on no columns, else build the schema
NewFinish ==
    /\ pc = "describe"
    /\ index > Len(source)
    /\ IF columns = <<>>
       THEN /\ NewFail("Resulting parquet file would not have any columns!")
            /\ UNCHANGED parquet_schema
       ELSE /\ parquet_schema' = Some(BuildSchema(columns))
            /\ new_result' = Some(Ok)
            /\ pc' = "ready"
    /\ UNCHANGED <<source, index, described, columns, batch_size, fetch_buffer, writer,
                   driveVars>>

\* ---------------------------------------------------------------- idle operations
Idle == pc = "ready"

\* TableStrategy::parquet_schema: a clone of the schema, with which the caller
\* configures the sink the next drive writes to
NewSink(fields) ==
    [fields |-> fields, moved |-> FALSE, row_groups |-> <<>>, open |-> None,
     column |-> None, reported |-> <<>>, close_calls |-> 0, closed |-> FALSE]

ParquetSchema ==
    /\ Idle
    /\ writer' = Some(NewSink(Unwrap(parquet_schema)))
    /\ batch_size' = None
    /\ UNCHANGED <<source, pc, newVars, tableVars, fetch_buffer, driveVars>>

\* BatchSizeLimit: an explicit row count or a memory ceiling in bytes
BatchSizeLimits ==
    [kind : {"Rows"}, n : 1..MaxRows] \cup [kind : {"Bytes"}, n : 0..MaxCeiling]

\* BatchSizeLimit::batch_size_in_rows(total_mem_usage_per_row)
BatchSizeInRows(limit, bytes_per_row) ==
    IF limit.kind = "Rows" THEN limit.n ELSE Max(1, limit.n \div bytes_per_row)

\* lines 76-80
MemUsageOdbcBufferPerRow(cols) ==
    Sum([i \in 1..Len(cols) |-> cols[i].strategy.bytes_per_row])

\* TotalMemUsagePerRow without the scratch buffer's share
TotalMemUsagePerRow_NoScratch(cols) == MemUsageOdbcBufferPerRow(cols)

\* lines 81-82
TotalMemUsagePerRow(cols) == MemUsageOdbcBufferPerRow(cols) + MEMORY_USAGE_BYTES_PER_ROW

\* ColumnarAnyBuffer::from_descs(capacity, descs): rows[r] is the batch whose
\* fetch last filled row r (0: none of this cursor's), num_rows the valid rows
FromDescs(capacity, descs) ==
    [capacity |-> capacity, descs |-> descs, rows |-> [r \in 1..capacity |-> 0],
     num_rows |-> 0]

\* BufferDescs collecting the descriptors last column first
BufferDescs_Reversed(cols) == [i \in 1..Len(cols) |-> cols[Len(cols) + 1 - i].strategy]

\* lines 93-98
BufferDescs(cols) == [i \in 1..Len(cols) |-> cols[i].strategy]

\* AllocateFetchBuffer sizing the buffer by the other usize at hand, the bytes per row
AllocateFetchBuffer_CapacityFromCost ==
    /\ Idle
    /\ \E limit \in BatchSizeLimits :
         /\ batch_size' = Some(limit)
         /\ fetch_buffer' = Some(FromDescs(TotalMemUsagePerRow(columns), BufferDescs(columns)))
    /\ UNCHANGED <<source, pc, newVars, tableVars, writer, driveVars>>

\* lines 72-101
AllocateFetchBuffer ==
    /\ Idle
    /\ \E limit \in BatchSizeLimits :
         LET batch_size_row == BatchSizeInRows(limit, TotalMemUsagePerRow(columns))
         IN /\ batch_size' = Some(limit)
            /\ fetch_buffer' = Some(FromDescs(batch_size_row, BufferDescs(columns)))
    /\ UNCHANGED <<source, pc, newVars, tableVars, writer, driveVars>>

\* ---------------------------------------------------------------- block_cursor_to_parquet
\* a call on the cursor or the sink: what it returned ("ok", "some", "none", "err")
\* and, when it failed, the error it raised
Event(op, arg, ret, cause) == [op |-> op, arg |-> arg, ret |-> ret, cause |-> cause]
Log(op, arg, ret) == trace' = Append(trace, Event(op, arg, ret, ""))
LogErr(op, arg, cause) == trace' = Append(trace, Event(op, arg, "err", cause))

Fail(e) ==
    /\ result' = Some(Err(e))
    /\ pc' = "failed"

\* ParquetBuffer::new(batch_size)
ParquetBufferNew(capacity) == [capacity |-> capacity, num_rows_fetched |-> 0]

\* ParquetBuffer::set_num_rows_fetched
SetNumRowsFetched(buf, n) == [buf EXCEPT !.num_rows_fetched = n]

\* lines 107-117: the call takes the cursor bound to the fetch buffer and the sink
BlockCursorToParquet ==
    /\ Idle
    /\ IsSome(fetch_buffer)
    /\ IsSome(writer)
    /\ ~Unwrap(writer).moved
    /\ writer' = Some([Unwrap(writer) EXCEPT !.moved = TRUE])
    /\ fetch_buffer' = Some(FromDescs(Unwrap(fetch_buffer).capacity, Unwrap(fetch_buffer).descs))
    /\ batch_size' = None
    /\ fetched' = 0
    /\ num_batch' = 0
    /\ total_rows_fetched' = 0
    /\ pb' = ParquetBufferNew(Unwrap(fetch_buffer).capacity)
    /\ pc' = "fetch"
    /\ UNCHANGED <<source, newVars, tableVars, col_index, num_rows, col_name, metadata,
                   result, trace>>

\* GiveHintAboutFlagForOracleUsers with the first match arm missing
GiveHintAboutFlagForOracleUsers_NoHint(cause) == Error(cause)

\* lines 164-175 (the message without its backquotes)
GiveHintAboutFlagForOracleUsers(cause) ==
    IF cause = "OracleOdbcDriverDoesNotSupport64Bit"
    THEN WithContext(Error(cause),
            <<"Looks like you are using an Oracle database. Try the ",
              "--driver-does-not-support-64bit-integers", " flag.">>)
    ELSE Error(cause)

FetchErrors == {"OracleOdbcDriverDoesNotSupport64Bit", "Diagnostics"}

\* BlockCursor::fetch filling n rows of the bound buffer with the rows of batch b
Fill(buf, b, n) ==
    [buf EXCEPT !.rows = [r \in 1..buf.capacity |-> IF r <= n THEN b ELSE @[r]],
                !.num_rows = n]

\* lines 119-122: a batch
FetchBatch ==
    /\ pc = "fetch"
    /\ fetched < MaxBatches
    /\ \E n \in 1..Unwrap(fetch_buffer).capacity :
         /\ fetch_buffer' = Some(Fill(Unwrap(fetch_buffer), fetched + 1, n))
         /\ Log("fetch", n, "some")
    /\ fetched' = fetched + 1
    /\ pc' = "next_row_group"
    /\ UNCHANGED <<source, newVars, tableVars, batch_size, writer, num_batch,
                   total_rows_fetched, pb, col_index, num_rows, col_name, metadata, result>>

\* lines 119-122: end of data leaves the loop
FetchEnd ==
    /\ pc = "fetch"
    /\ Log("fetch", 0, "none")
    /\ pc' = "close_box"
    /\ UNCHANGED <<source, newVars, tableVars, batch_size, fetch_buffer, writer, fetched,
                   num_batch, total_rows_fetched, pb, col_index, num_rows, col_name,
                   metadata, result>>

\* lines 119-122: the fetch fails; the error goes through the hint and out
FetchFail ==
    /\ pc = "fetch"
    /\ \E cause \in FetchErrors :
         /\ Fail(GiveHintAboutFlagForOracleUsers(cause))
         /\ LogErr("fetch", 0, cause)
    /\ UNCHANGED <<source, newVars, tableVars, batch_size, fetch_buffer, writer, fetched,
                   num_batch, total_rows_fetched, pb, col_index, num_rows, col_name,
                   metadata>>

\* the sink the drive writes to, and the row group it has open
Sink == Unwrap(writer)
OpenRowGroup == Unwrap(Sink.open)

\* line 123: writer.next_row_group(num_batch)?
NextRowGroup ==
    /\ pc = "next_row_group"
    /\ \E ok \in BOOLEAN :
         IF ok
         THEN /\ writer' = Some([Sink EXCEPT
                     !.open = Some([ordinal |-> num_batch, columns |-> <<>>])])
              /\ Log("next_row_group", num_batch, "ok")
              /\ pc' = "batch_ready"
              /\ UNCHANGED result
         ELSE /\ Fail(Error("next_row_group"))
              /\ LogErr("next_row_group", num_batch, "next_row_group")
              /\ UNCHANGED writer
    /\ UNCHANGED <<source, newVars, tableVars, batch_size, fetch_buffer, fetched, num_batch,
                   total_rows_fetched, pb, col_index, num_rows, col_name, metadata>>

\* BatchReady bounding the scratch buffer by its capacity instead of the batch's rows
BatchReady_CapacityRows ==
    /\ pc = "batch_ready"
    /\ col_index' = 0
    /\ num_rows' = Unwrap(fetch_buffer).num_rows
    /\ total_rows_fetched' = total_rows_fetched + num_rows'
    /\ num_batch' = num_batch + 1
    /\ pb' = SetNumRowsFetched(pb, pb.capacity)
    /\ pc' = "next_column"
    /\ UNCHANGED <<source, newVars, tableVars, batch_size, fetch_buffer, writer, fetched,
                   col_name, metadata, result, trace>>

\* BatchReady without the num_batch += 1 of line 127
BatchReady_NoBatchIncrement ==
    /\ pc = "batch_ready"
    /\ col_index' = 0
    /\ num_rows' = Unwrap(fetch_buffer).num_rows
    /\ total_rows_fetched' = total_rows_fetched + num_rows'
    /\ pb' = SetNumRowsFetched(pb, num_rows')
    /\ pc' = "next_column"
    /\ UNCHANGED <<source, newVars, tableVars, batch_size, fetch_buffer, writer, fetched,
                   num_batch, col_name, metadata, result, trace>>

\* BatchReady making a scratch buffer of the batch's size in every iteration
BatchReady_ReallocatesScratch ==
    /\ pc = "batch_ready"
    /\ col_index' = 0
    /\ num_rows' = Unwrap(fetch_buffer).num_rows
    /\ total_rows_fetched' = total_rows_fetched + num_rows'
    /\ num_batch' = num_batch + 1
    /\ pb' = SetNumRowsFetched(ParquetBufferNew(num_rows'), num_rows')
    /\ pc' = "next_column"
    /\ UNCHANGED <<source, newVars, tableVars, batch_size, fetch_buffer, writer, fetched,
                   col_name, metadata, result, trace>>

\* BatchReady with col_index declared outside the loop and not reset per batch
BatchReady_KeepsColIndex ==
    /\ pc = "batch_ready"
    /\ num_rows' = Unwrap(fetch_buffer).num_rows
    /\ total_rows_fetched' = total_rows_fetched + num_rows'
    /\ num_batch' = num_batch + 1
    /\ pb' = SetNumRowsFetched(pb, num_rows')
    /\ pc' = "next_column"
    /\ UNCHANGED <<source, newVars, tableVars, batch_size, fetch_buffer, writer, fetched,
                   col_index, col_name, metadata, result, trace>>

\* lines 124-130
BatchReady ==
    /\ pc = "batch_ready"
    /\ col_index' = 0
    /\ num_rows' = Unwrap(fetch_buffer).num_rows
    /\ total_rows_fetched' = total_rows_fetched + num_rows'
    /\ num_batch' = num_batch + 1
    /\ pb' = SetNumRowsFetched(pb, num_rows')
    /\ pc' = "next_column"
    /\ UNCHANGED <<source, newVars, tableVars, batch_size, fetch_buffer, writer, fetched,
                   col_name, metadata, result, trace>>

\* SerializedRowGroupWriter::next_column: a writer for the next column of the
\* sink's schema, or None once each has been written
HasNextColumn(sink) == Len(Unwrap(sink.open).columns) < Len(sink.fields)

\* NextColumn going back to the fetch once the columns are written, with the
\* row group left open
NextColumn_SkipsClose ==
    /\ pc = "next_column"
    /\ \E ok \in BOOLEAN :
         IF ~ok
         THEN /\ Fail(Error("next_column"))
              /\ LogErr("next_column", col_index, "next_column")
              /\ UNCHANGED <<writer, col_name>>
         ELSE IF HasNextColumn(Sink)
         THEN /\ writer' = Some([Sink EXCEPT
                     !.column = Some([position |-> Len(OpenRowGroup.columns),
                                      strategy |-> 0, view |-> 0, values |-> <<>>])])
              /\ Log("next_column", col_index, "some")
              /\ IF col_index < Len(Unwrap(parquet_schema))
                 THEN /\ col_name' = Unwrap(parquet_schema)[col_index + 1].name
                      /\ pc' = "convert"
                 ELSE /\ pc' = "panicked"
                      /\ UNCHANGED col_name
              /\ UNCHANGED result
         ELSE /\ Log("next_column", col_index, "none")
              /\ pc' = "fetch"
              /\ UNCHANGED <<writer, col_name, result>>
    /\ UNCHANGED <<source, newVars, tableVars, batch_size, fetch_buffer, fetched, num_batch,
                   total_rows_fetched, pb, col_index, num_rows, metadata>>

\* lines 131-140: next_column()?, then the name of schema field col_index; the
\* indexing panics past the last field
NextColumn ==
    /\ pc = "next_column"
    /\ \E ok \in BOOLEAN :
         IF ~ok
         THEN /\ Fail(Error("next_column"))
              /\ LogErr("next_column", col_index, "next_column")
              /\ UNCHANGED <<writer, col_name>>
         ELSE IF HasNextColumn(Sink)
         THEN /\ writer' = Some([Sink EXCEPT
                     !.column = Some([position |-> Len(OpenRowGroup.columns),
                                      strategy |-> 0, view |-> 0, values |-> <<>>])])
              /\ Log("next_column", col_index, "some")
              /\ IF col_index < Len(Unwrap(parquet_schema))
                 THEN /\ col_name' = Unwrap(parquet_schema)[col_index + 1].name
                      /\ pc' = "convert"
                 ELSE /\ pc' = "panicked"
                      /\ UNCHANGED col_name
              /\ UNCHANGED result
         ELSE /\ Log("next_column", col_index, "none")
              /\ pc' = "close_row_group"
              /\ UNCHANGED <<writer, col_name, result>>
    /\ UNCHANGED <<source, newVars, tableVars, batch_size, fetch_buffer, fetched, num_batch,
                   total_rows_fetched, pb, col_index, num_rows, metadata>>

\* line 140: buffer.column(col_index), the view of one column of the fetched block
Column(buf, i) == [col |-> i + 1, rows |-> buf.rows]

\* ColumnStrategy::copy_odbc_to_parquet: the values strategy s appends to the column
\* writer, the first pb.num_rows_fetched rows of the view
CopyOdbcToParquet(s, buf, cw, view) ==
    [cw EXCEPT !.strategy = s.col, !.view = view.col,
               !.values = SubSeq(view.rows, 1, buf.num_rows_fetched)]

\* CopyContext with a message that leaves the column's name out
CopyContext_NoName(name) ==
    <<"Failed to copy column from ODBC representation into Parquet.">>

\* lines 145-150: the context a conversion failure is wrapped with
CopyContext(name) ==
    <<"Failed to copy column '", name, "' from ODBC representation into Parquet.">>

\* lines 142-150
Convert ==
    /\ pc = "convert"
    /\ \E ok \in BOOLEAN :
         IF ok
         THEN /\ writer' = Some([Sink EXCEPT !.column = Some(
                     CopyOdbcToParquet(columns[col_index + 1].strategy, pb, Unwrap(@),
                                       Column(Unwrap(fetch_buffer), col_index)))])
              /\ Log("convert", col_index, "ok")
              /\ pc' = "close_column"
              /\ UNCHANGED result
         ELSE /\ Fail(WithContext(Error("copy_odbc_to_parquet"), CopyContext(col_name)))
              /\ LogErr("convert", col_index, "copy_odbc_to_parquet")
              /\ UNCHANGED writer
    /\ UNCHANGED <<source, newVars, tableVars, batch_size, fetch_buffer, fetched, num_batch,
                   total_rows_fetched, pb, col_index, num_rows, col_name, metadata>>

\* CloseColumn without the col_index += 1 of line 152
CloseColumn_NoIncrement ==
    /\ pc = "close_column"
    /\ \E ok \in BOOLEAN :
         IF ok
         THEN /\ writer' = Some([Sink EXCEPT
                     !.open = Some([OpenRowGroup EXCEPT
                                      !.columns = Append(@, Unwrap(Sink.column))]),
                     !.column = None])
              /\ Log("close_column", col_index, "ok")
              /\ pc' = "next_column"
              /\ UNCHANGED result
         ELSE /\ Fail(Error("column_writer.close"))
              /\ LogErr("close_column", col_index, "column_writer.close")
              /\ UNCHANGED writer
    /\ UNCHANGED <<source, newVars, tableVars, batch_size, fetch_buffer, fetched, num_batch,
                   total_rows_fetched, pb, col_index, num_rows, col_name, metadata>>

\* CloseColumn dropping the result of column_writer.close() and going on
CloseColumn_IgnoresError ==
    /\ pc = "close_column"
    /\ \E ok \in BOOLEAN :
         IF ok
         THEN /\ writer' = Some([Sink EXCEPT
                     !.open = Some([OpenRowGroup EXCEPT
                                      !.columns = Append(@, Unwrap(Sink.column))]),
                     !.column = None])
              /\ Log("close_column", col_index, "ok")
         ELSE /\ writer' = Some([Sink EXCEPT
                     !.open = Some([OpenRowGroup EXCEPT
                                      !.columns = Append(@, Unwrap(Sink.column))]),
                     !.column = None])
              /\ LogErr("close_column", col_index, "column_writer.close")
    /\ col_index' = col_index + 1
    /\ pc' = "next_column"
    /\ UNCHANGED <<source, newVars, tableVars, batch_size, fetch_buffer, fetched, num_batch,
                   total_rows_fetched, pb, num_rows, col_name, metadata, result>>

\* lines 151-152: column_writer.close()?, col_index += 1
CloseColumn ==
    /\ pc = "close_column"
    /\ \E ok \in BOOLEAN :
         IF ok
         THEN /\ writer' = Some([Sink EXCEPT
                     !.open = Some([OpenRowGroup EXCEPT
                                      !.columns = Append(@, Unwrap(Sink.column))]),
                     !.column = None])
              /\ Log("close_column", col_index, "ok")
              /\ col_index' = col_index + 1
              /\ pc' = "next_column"
              /\ UNCHANGED result
         ELSE /\ Fail(Error("column_writer.close"))
              /\ LogErr("close_column", col_index, "column_writer.close")
              /\ UNCHANGED <<writer, col_index>>
    /\ UNCHANGED <<source, newVars, tableVars, batch_size, fetch_buffer, fetched, num_batch,
                   total_rows_fetched, pb, num_rows, col_name, metadata>>

\* rows of a row group: those of its column chunks
RowGroupRows(rg) == IF rg.columns = <<>> THEN 0 ELSE Len(rg.columns[1].values)

\* line 154: row_group_writer.close()?
CloseRowGroup ==
    /\ pc = "close_row_group"
    /\ \E ok \in BOOLEAN :
         IF ok
         THEN \E size \in CompressedSizes :
              /\ writer' = Some([Sink EXCEPT
                     !.row_groups = Append(@, [ordinal |-> OpenRowGroup.ordinal,
                                               columns |-> OpenRowGroup.columns,
                                               num_rows |-> RowGroupRows(OpenRowGroup),
                                               compressed_size |-> size]),
                     !.open = None])
              /\ metadata' = Some([num_rows |-> RowGroupRows(OpenRowGroup),
                                   compressed_size |-> size])
              /\ Log("close_row_group", RowGroupRows(OpenRowGroup), "ok")
              /\ pc' = "update_current_file_size"
              /\ UNCHANGED result
         ELSE /\ Fail(Error("row_group_writer.close"))
              /\ LogErr("close_row_group", 0, "row_group_writer.close")
              /\ UNCHANGED <<writer, metadata>>
    /\ UNCHANGED <<source, newVars, tableVars, batch_size, fetch_buffer, fetched, num_batch,
                   total_rows_fetched, pb, col_index, num_rows, col_name>>

\* UpdateCurrentFileSize leaving the loop after one batch (an if let for the while let)
UpdateCurrentFileSize_LeavesLoop ==
    /\ pc = "update_current_file_size"
    /\ writer' = Some([Sink EXCEPT !.reported = Append(@, Unwrap(metadata).compressed_size)])
    /\ Log("update_current_file_size", Unwrap(metadata).compressed_size, "ok")
    /\ pc' = "close_box"
    /\ UNCHANGED <<source, newVars, tableVars, batch_size, fetch_buffer, fetched, num_batch,
                   total_rows_fetched, pb, col_index, num_rows, col_name, metadata, result>>

\* UpdateCurrentFileSize passing the sum of the sizes of the row groups closed so far
UpdateCurrentFileSize_Cumulative ==
    LET total == Sum([j \in 1..Len(Sink.row_groups) |-> Sink.row_groups[j].compressed_size])
    IN /\ pc = "update_current_file_size"
       /\ writer' = Some([Sink EXCEPT !.reported = Append(@, total)])
       /\ Log("update_current_file_size", total, "ok")
       /\ pc' = "fetch"
       /\ UNCHANGED <<source, newVars, tableVars, batch_size, fetch_buffer, fetched,
                      num_batch, total_rows_fetched, pb, col_index, num_rows, col_name,
                      metadata, result>>

\* line 155: writer.update_current_file_size(metadata.compressed_size())
UpdateCurrentFileSize ==
    /\ pc = "update_current_file_size"
    /\ writer' = Some([Sink EXCEPT !.reported = Append(@, Unwrap(metadata).compressed_size)])
    /\ Log("update_current_file_size", Unwrap(metadata).compressed_size, "ok")
    /\ pc' = "fetch"
    /\ UNCHANGED <<source, newVars, tableVars, batch_size, fetch_buffer, fetched, num_batch,
                   total_rows_fetched, pb, col_index, num_rows, col_name, metadata, result>>

\* CloseBox returning Ok(()) without the writer.close_box()? of line 157
CloseBox_NotClosed ==
    /\ pc = "close_box"
    /\ result' = Some(Ok)
    /\ pc' = "done"
    /\ UNCHANGED <<source, newVars, tableVars, batch_size, fetch_buffer, writer, fetched,
                   num_batch, total_rows_fetched, pb, col_index, num_rows, col_name,
                   metadata, trace>>

\* lines 157-158: writer.close_box()?, Ok(())
CloseBox ==
    /\ pc = "close_box"
    /\ \E ok \in BOOLEAN :
         IF ok
         THEN /\ writer' = Some([Sink EXCEPT !.close_calls = @ + 1, !.closed = TRUE])
              /\ Log("close_box", 0, "ok")
              /\ result' = Some(Ok)
              /\ pc' = "done"
         ELSE /\ writer' = Some([Sink EXCEPT !.close_calls = @ + 1])
              /\ LogErr("close_box", 0, "close_box")
              /\ Fail(Error("close_box"))
    /\ UNCHANGED <<source, newVars, tableVars, batch_size, fetch_buffer, fetched, num_batch,
                   total_rows_fetched, pb, col_index, num_rows, col_name, metadata>>

\* the call has returned: its locals and the sink it owned are dropped
Return ==
    /\ pc \in {"done", "failed"}
    /\ pc' = "ready"
    /\ writer' = None
    /\ fetched' = 0
    /\ num_batch' = 0
    /\ total_rows_fetched' = 0
    /\ pb' = [capacity |-> 0, num_rows_fetched |-> 0]
    /\ col_index' = 0
    /\ num_rows' = 0
    /\ col_name' = ""
    /\ metadata' = None
    /\ result' = None
    /\ trace' = <<>>
    /\ UNCHANGED <<source, newVars, tableVars, batch_size, fetch_buffer>>

\* lines 107-111: the caller hands the drive a sink it did not configure with
\* the schema of parquet_schema(): one of n fields, one fewer or one more than
\* the schema has: the first n of the schema, with one more field after them
\* when n exceeds the schema
ForeignSink ==
    /\ Idle
    /\ \E n \in {Len(Unwrap(parquet_schema)) - 1, Len(Unwrap(parquet_schema)) + 1} :
         writer' = Some(NewSink([i \in 1..n |->
                        IF i <= Len(Unwrap(parquet_schema))
                        THEN Unwrap(parquet_schema)[i]
                        ELSE [name |-> "extra", col |-> i]]))
    /\ batch_size' = None
    /\ UNCHANGED <<source, pc, newVars, tableVars, fetch_buffer, driveVars>>

\* ---------------------------------------------------------------- specification
Next ==
    \/ NewStart
    \/ DescribeCol
    \/ NewFinish
    \/ ParquetSchema
    \/ AllocateFetchBuffer
    \/ BlockCursorToParquet
    \/ FetchBatch
    \/ FetchEnd
    \/ FetchFail
    \/ NextRowGroup
    \/ BatchReady
    \/ NextColumn
    \/ Convert
    \/ CloseColumn
    \/ CloseRowGroup
    \/ UpdateCurrentFileSize
    \/ CloseBox
    \/ Return

Spec == Init /\ [][Next]_vars

\* ================================================================ properties

\* TableStrategy::new has returned Ok(TableStrategy { columns, parquet_schema })
Constructed == new_result = Some(Ok)

\* the names "Column{i}" written out
ColumnN == <<"Column1", "Column2", "Column3", "Column4">>

\* C1: once TableStrategy::new has succeeded on a source of N >= 1 columns, the
\* schema has exactly N fields, field i belongs to source column i (1-based), in
\* source order, and carries the reported name of that column, or "Column{i}"
\* when the reported name is empty; the (name, strategy) entries agree.
C1_SchemaMirrorsSource ==
    (Constructed /\ Len(source) >= 1) =>
        LET fields == Unwrap(parquet_schema) IN
        /\ Len(fields) = Len(source)
        /\ Len(columns) = Len(source)
        /\ \A i \in 1..Len(source) :
             /\ fields[i].col = i
             /\ fields[i].name = (IF source[i].name = "" THEN ColumnN[i] ELSE source[i].name)
             /\ columns[i].name = fields[i].name
             /\ columns[i].strategy.col = i
             /\ columns[i].strategy.bytes_per_row = source[i].bytes

\* a table built from a named first column and an unnamed second one
C1_Witness ==
    /\ Constructed
    /\ Len(source) = 2
    /\ source[1].name = "amount"
    /\ source[2].name = ""
    /\ Unwrap(parquet_schema)[2].name = "Column2"

\* C2: a source of zero columns makes TableStrategy::new fail, and no
\* TableStrategy with a schema of zero fields is ever returned.
C2_NoEmptySchema ==
    /\ (Len(source) = 0 /\ IsSome(new_result)) => ~Unwrap(new_result).ok
    /\ (Len(source) = 0) => (pc \in {"new", "describe", "new_failed"} /\ parquet_schema = None)
    /\ Constructed => (Len(Unwrap(parquet_schema)) >= 1 /\ Len(columns) >= 1)
    /\ IsSome(parquet_schema) => Constructed

\* construction over a source without columns has bailed at lines 54-56
C2_Witness ==
    /\ Len(source) = 0
    /\ pc = "new_failed"
    /\ described = <<>>
    /\ new_result = Some(Err(Error("Resulting parquet file would not have any columns!")))

\* ---------------------------------------------------------------- the drive
\* the calls of the current drive that match op and ret
Calls(op, ret) == SelectSeq(trace, LAMBDA e : e.op = op /\ e.ret = ret)
\* the batches the cursor has delivered to the current drive, in fetch order
Batches == Calls("fetch", "some")
\* the calls of the current drive that failed
Failures == SelectSeq(trace, LAMBDA e : e.ret = "err")
LastCall == trace[Len(trace)]
\* n copies of v
Rows(n, v) == [r \in 1..n |-> v]

\* C3: a drive that returns success over the batches b_1..b_k has closed exactly
\* k row groups, the j-th holding the rows of batch b_j and as many rows as b_j
\* reported, has seen end of data once, and has then closed the sink once without
\* opening another row group; for k = 0 it did nothing but fetch and close.
C3_RowGroupPerBatch ==
    pc = "done" =>
        LET k == Len(Batches) IN
        /\ result = Some(Ok)
        /\ Len(Sink.row_groups) = k
        /\ \A j \in 1..k :
             /\ Sink.row_groups[j].num_rows = Batches[j].arg
             /\ Len(Sink.row_groups[j].columns) = Len(columns)
             /\ \A c \in 1..Len(columns) :
                  Sink.row_groups[j].columns[c].values = Rows(Batches[j].arg, j)
        /\ Len(Calls("next_row_group", "ok")) = k
        /\ Len(SelectSeq(trace, LAMBDA e : e.op = "next_row_group")) = k
        /\ Sink.open = None
        /\ Sink.closed
        /\ Sink.close_calls = 1
        /\ Len(SelectSeq(trace, LAMBDA e : e.op = "close_box")) = 1
        /\ Len(Calls("fetch", "none")) = 1
        /\ Len(trace) >= 2
        /\ LastCall = Event("close_box", 0, "ok", "")
        /\ trace[Len(trace) - 1] = Event("fetch", 0, "none", "")
        /\ (k = 0 => Len(trace) = 2)

\* a successful drive over a batch of two rows followed by a batch of one row
C3_Witness ==
    /\ pc = "done"
    /\ Len(columns) = 2
    /\ Len(Batches) = 2
    /\ Batches[1].arg = 2
    /\ Batches[2].arg = 1
    /\ Len(Sink.row_groups) = 2

\* the drive has returned an error
Failed == pc = "failed"
DriveError == Unwrap(result).error
\* the name of the column with 0-based index c, as the source reports it
SourceName(c) == IF source[c + 1].name = "" THEN ColumnN[c + 1] ELSE source[c + 1].name

\* C4: when the conversion of column c fails during batch k, the drive returns an
\* error whose message holds the name of column c; the sink holds the k-1 row
\* groups of the earlier batches and no more, the row group of batch k stays
\* open with the columns before c, and the failed conversion is the last call
\* made: no later column is converted and no later batch fetched.
C4_ConversionFailure ==
    (Failed /\ LastCall.op = "convert") =>
        LET c == LastCall.arg
            k == Len(Batches)
            N == Len(columns)
        IN
        /\ LastCall.ret = "err"
        /\ ~Unwrap(result).ok
        /\ DriveError.cause = "copy_odbc_to_parquet"
        /\ SourceName(c) \in MessagePieces(DriveError)
        /\ columns[c + 1].name = SourceName(c)
        /\ Unwrap(parquet_schema)[c + 1].name = SourceName(c)
        /\ k >= 1
        /\ Len(Sink.row_groups) = k - 1
        /\ \A j \in 1..(k - 1) : Sink.row_groups[j].num_rows = Batches[j].arg
        /\ IsSome(Sink.open)
        /\ Len(OpenRowGroup.columns) = c
        /\ Len(Calls("close_row_group", "ok")) = k - 1
        /\ Len(Calls("convert", "ok")) = (k - 1) * N + c
        /\ Len(SelectSeq(trace, LAMBDA e : e.op = "fetch")) = k
        /\ Len(Failures) = 1

\* the conversion of the second column, "amount", fails during the second batch
C4_Witness ==
    /\ Failed
    /\ LastCall.op = "convert"
    /\ LastCall.arg = 1
    /\ Len(Batches) = 2
    /\ columns[2].name = "amount"
    /\ columns[1].name = "Column1"
    /\ Len(Sink.row_groups) = 1

\* C5: the sink's close is called at most once, and only right after a fetch
\* that returned end of data, with no failure before it; the first failing call
\* is the last call of the drive, which then returns its error, so the closed
\* row groups are those closed before the failure.
C5_FailFast ==
    /\ IsSome(writer) =>
         /\ Sink.close_calls <= 1
         /\ Sink.close_calls = Len(SelectSeq(trace, LAMBDA e : e.op = "close_box"))
         /\ Len(Sink.row_groups) = Len(Calls("close_row_group", "ok"))
    /\ \A p \in 1..Len(trace) :
         /\ trace[p].op = "close_box" =>
              /\ p = Len(trace)
              /\ p >= 2
              /\ trace[p - 1] = Event("fetch", 0, "none", "")
         /\ trace[p].ret = "err" => (p = Len(trace) /\ Failed)
    /\ Failed =>
         /\ Len(trace) >= 1
         /\ LastCall.ret = "err"
         /\ ~Unwrap(result).ok
         /\ DriveError.cause = LastCall.cause
         /\ \A j \in 1..Len(Sink.row_groups) : Sink.row_groups[j].num_rows = Batches[j].arg
    /\ (IsSome(result) /\ Unwrap(result).ok) => pc = "done"

\* closing the row group of the second batch has failed
C5_Witness ==
    /\ Failed
    /\ LastCall.op = "close_row_group"
    /\ Len(Batches) = 2
    /\ Len(Sink.row_groups) = 1
    /\ IsSome(Sink.open)
    /\ Sink.close_calls = 0

\* the switch the hint names
Hint == "--driver-does-not-support-64bit-integers"

\* C6: a failed fetch fails the drive with the error the cursor raised as its
\* cause; for the Oracle 64 bit variant the message also holds the hint naming
\* the switch, for any other variant the error is the cursor's own, without the
\* hint; no row group is opened for the failed fetch.
C6_FetchFailureHint ==
    (Failed /\ LastCall.op = "fetch") =>
        /\ ~Unwrap(result).ok
        /\ LastCall.cause \in FetchErrors
        /\ DriveError.cause = LastCall.cause
        /\ (LastCall.cause = "OracleOdbcDriverDoesNotSupport64Bit") =>
              /\ Hint \in MessagePieces(DriveError)
              /\ Len(DriveError.context) = 1
        /\ (LastCall.cause # "OracleOdbcDriverDoesNotSupport64Bit") =>
              /\ DriveError = Error(LastCall.cause)
              /\ Hint \notin MessagePieces(DriveError)
        /\ Sink.open = None
        /\ Len(SelectSeq(trace, LAMBDA e : e.op = "next_row_group")) = Len(Batches)
        /\ Len(Sink.row_groups) = Len(Batches)

\* the fetch after the first batch fails with the Oracle variant
C6_Witness ==
    /\ Failed
    /\ LastCall = Event("fetch", 0, "err", "OracleOdbcDriverDoesNotSupport64Bit")
    /\ Len(Batches) = 1
    /\ Hint \in MessagePieces(DriveError)

\* ---------------------------------------------------------------- allocate_fetch_buffer
\* allocate_fetch_buffer has just returned a buffer for a limit of this kind
Allocated(kind) == IsSome(batch_size) /\ Unwrap(batch_size).kind = kind
Limit == Unwrap(batch_size).n
Capacity == Unwrap(fetch_buffer).capacity
\* bytes one row costs: the columns' buffers and the scratch buffer's share
RowCost == Sum([i \in 1..Len(source) |-> source[i].bytes]) + MEMORY_USAGE_BYTES_PER_ROW

C8_RowLimitVerbatim ==
    Allocated("Rows") =>
        /\ Capacity = Limit
        /\ Len(Unwrap(fetch_buffer).rows) = Limit
        /\ Len(Unwrap(fetch_buffer).descs) = Len(source)

\* a limit of two rows over two columns of different byte costs
C8_Witness ==
    /\ Allocated("Rows")
    /\ Limit = 2
    /\ Capacity = 2
    /\ Len(source) = 2
    /\ source[1].bytes # source[2].bytes

\* ---------------------------------------------------------------- within a batch
\* the drive is between BatchReady and the close of the batch's row group
WritingColumns == pc \in {"next_column", "convert", "close_column", "close_row_group"}
\* a column writer that a conversion has written to
Converted(cw) == cw.strategy # 0

\* C9: while the columns of a batch are written, the scratch buffer's row count
\* is the row count that batch reported; every column chunk a conversion wrote
\* for the j-th batch holds as many values as the j-th batch reported and only
\* rows of the j-th batch, never a trailing row an earlier batch left in the
\* fetch buffer and never the buffer's whole capacity.
C9_RowsBoundedByBatch ==
    /\ WritingColumns =>
         /\ Len(Batches) >= 1
         /\ pb.num_rows_fetched = Batches[Len(Batches)].arg
         /\ num_rows = Batches[Len(Batches)].arg
         /\ Unwrap(fetch_buffer).num_rows = Batches[Len(Batches)].arg
    /\ IsSome(writer) =>
         /\ \A j \in 1..Len(Sink.row_groups) : \A c \in 1..Len(Sink.row_groups[j].columns) :
              Sink.row_groups[j].columns[c].values = Rows(Batches[j].arg, j)
         /\ IsSome(Sink.open) =>
              \A c \in 1..Len(OpenRowGroup.columns) :
                 OpenRowGroup.columns[c].values
                     = Rows(Batches[Len(Batches)].arg, Len(Batches))
         /\ (IsSome(Sink.column) /\ Converted(Unwrap(Sink.column))) =>
              Unwrap(Sink.column).values = Rows(Batches[Len(Batches)].arg, Len(Batches))

\* a batch of one row after a batch of two: the second row of the fetch buffer
\* still holds a row of the first batch, and the conversion wrote one value
C9_Witness ==
    /\ pc = "close_column"
    /\ Len(Batches) = 2
    /\ Batches[1].arg = 2
    /\ Batches[2].arg = 1
    /\ Unwrap(fetch_buffer).rows = <<2, 1>>
    /\ Unwrap(fetch_buffer).capacity = 2
    /\ Unwrap(Sink.column).values = <<2>>

\* the m-th call of a row group over N columns: a column writer is opened, the
\* column converted and the writer closed, for columns 0 .. N-1 in turn, and
\* then next_column returns None
ExpectedCall(m, N) ==
    IF m = 3 * N + 1 THEN Event("next_column", N, "none", "")
    ELSE LET c == (m - 1) \div 3
             r == (m - 1) % 3
         IN IF r = 0 THEN Event("next_column", c, "some", "")
            ELSE IF r = 1 THEN Event("convert", c, "ok", "")
            ELSE Event("close_column", c, "ok", "")

\* position in the trace of the latest next_row_group at or before q (0: none)
RowGroupStart(q) ==
    LET ps == {p \in 1..q : trace[p].op = "next_row_group"}
    IN IF ps = {} THEN 0 ELSE CHOOSE p \in ps : \A o \in ps : o <= p

\* C10: in every row group the calls are, for the columns 0, 1, .., N-1 in this
\* order and once each: open a column writer, convert with strategy i the view
\* of column i, close the column writer; only then the next writer is opened,
\* and after column N-1 next_column returns None and the row group is closed
\* with its N columns in schema order.
C10_ColumnsInSchemaOrder ==
    LET N == Len(columns) IN
    /\ \A q \in 1..Len(trace) :
         trace[q].op \in {"next_column", "convert", "close_column", "close_row_group"} =>
            LET p == RowGroupStart(q)
                m == q - p
            IN /\ p >= 1
               /\ trace[p].ret = "ok"
               /\ m <= 3 * N + 2
               /\ IF m = 3 * N + 2
                  THEN trace[q].op = "close_row_group"
                  ELSE \/ trace[q] = ExpectedCall(m, N)
                       \/ /\ q = Len(trace)
                          /\ trace[q].ret = "err"
                          /\ trace[q].op = ExpectedCall(m, N).op
                          /\ trace[q].arg = ExpectedCall(m, N).arg
    /\ IsSome(writer) =>
         /\ \A j \in 1..Len(Sink.row_groups) :
              /\ Len(Sink.row_groups[j].columns) = N
              /\ \A i \in 1..N :
                   /\ Sink.row_groups[j].columns[i].position = i - 1
                   /\ Sink.row_groups[j].columns[i].strategy = columns[i].strategy.col
                   /\ Sink.row_groups[j].columns[i].strategy = i
                   /\ Sink.row_groups[j].columns[i].view = i
         /\ WritingColumns => (col_index = Len(OpenRowGroup.columns) /\ col_index <= N)

\* the row group of a batch over two columns has just been closed
C10_Witness ==
    /\ pc = "update_current_file_size"
    /\ Len(columns) = 2
    /\ Len(Sink.row_groups) = 1
    /\ Len(Sink.row_groups[1].columns) = 2
    /\ Len(Calls("convert", "ok")) = 2

\* ---------------------------------------------------------------- sizes and ordinals
\* sum of the compressed sizes of the first j closed row groups
CumulativeSize(j) == Sum([i \in 1..j |-> Sink.row_groups[i].compressed_size])
\* each closed row group has had its size reported, but for the one closed last
\* while line 155 has not run yet
ReportedOncePerRowGroup ==
    /\ Len(Sink.reported)
         = Len(Sink.row_groups) - (IF pc = "update_current_file_size" THEN 1 ELSE 0)
    /\ \A q \in 1..Len(trace) :
         /\ trace[q].op = "update_current_file_size" =>
              (q > 1 /\ trace[q - 1].op = "close_row_group" /\ trace[q - 1].ret = "ok")
         /\ (trace[q].op = "close_row_group" /\ trace[q].ret = "ok" /\ q < Len(trace)) =>
              trace[q + 1].op = "update_current_file_size"
         /\ (trace[q].op = "fetch" /\ q > 1) => trace[q - 1].op = "update_current_file_size"

\* C11 as stated: the size reported after the j-th row group is closed is the sum
\* of the compressed sizes of the row groups closed so far, once per row group
\* and before the next fetch.
C11_Original ==
    IsSome(writer) =>
        /\ ReportedOncePerRowGroup
        /\ \A j \in 1..Len(Sink.reported) : Sink.reported[j] = CumulativeSize(j)

\* C11 amended: the size reported after the j-th row group is closed is the
\* compressed size of that row group alone, reported once per closed row group,
\* right after its close and before the next fetch.
C11_ReportsRowGroupSize ==
    IsSome(writer) =>
        /\ ReportedOncePerRowGroup
        /\ \A j \in 1..Len(Sink.reported) :
             Sink.reported[j] = Sink.row_groups[j].compressed_size
        /\ \A q \in 1..Len(trace) :
             trace[q].op = "update_current_file_size" =>
                trace[q].arg
                    = Sink.row_groups[Len(SelectSeq(SubSeq(trace, 1, q),
                          LAMBDA e : e.op = "close_row_group" /\ e.ret = "ok"))].compressed_size

\* two row groups of compressed sizes 2 and 1 have been closed and reported
C11_Witness ==
    /\ pc = "fetch"
    /\ Len(Sink.row_groups) = 2
    /\ Sink.row_groups[1].compressed_size = 2
    /\ Sink.row_groups[2].compressed_size = 1
    /\ Sink.reported = <<2, 1>>

\* ---------------------------------------------------------------- descriptor failures
\* TableStrategy::new has failed in describe_col
DescribeFailed ==
    /\ pc = "new_failed"
    /\ Unwrap(new_result).error.cause = "describe_col"

\* C12: when describe_col fails for column index k, construction fails, the
\* error it returns carries the index k, no TableStrategy is returned and no
\* column after k is described.
C12_DescriptorErrorCarriesIndex ==
    DescribeFailed =>
        LET k == described[Len(described)] IN
        /\ ~Unwrap(new_result).ok
        /\ ToString(k) \in MessagePieces(Unwrap(new_result).error)
        /\ parquet_schema = None
        /\ described = [i \in 1..k |-> i]

\* every call of next_row_group made by the current drive
RowGroupCalls == SelectSeq(trace, LAMBDA e : e.op = "next_row_group")

\* C13: the row group opened for the j-th fetched batch (from 0) is tagged j:
\* the ordinals passed to next_row_group are 0, 1, 2, .. without gap or repeat,
\* one per fetched batch, and num_batch counts the batches taken so far.
C13_OrdinalsConsecutive ==
    /\ \A j \in 1..Len(RowGroupCalls) : RowGroupCalls[j].arg = j - 1
    /\ Len(RowGroupCalls) = Len(Batches) - (IF pc = "next_row_group" THEN 1 ELSE 0)
    /\ num_batch = Len(Calls("next_row_group", "ok")) - (IF pc = "batch_ready" THEN 1 ELSE 0)
    /\ IsSome(writer) =>
         /\ \A j \in 1..Len(Sink.row_groups) : Sink.row_groups[j].ordinal = j - 1
         /\ IsSome(Sink.open) => OpenRowGroup.ordinal = Len(Sink.row_groups)

\* the row group of the second batch has been opened with ordinal 1
C13_Witness ==
    /\ pc = "next_column"
    /\ Len(Batches) = 2
    /\ RowGroupCalls[2].arg = 1
    /\ OpenRowGroup.ordinal = 1
    /\ num_batch = 2

\* positions of the trace holding a call of op that returned ret
Positions(op, ret) == {q \in 1..Len(trace) : trace[q].op = op /\ trace[q].ret = ret}
\* between any two calls of open that succeeded lies a call of close that succeeded
ClosedBeforeReopened(open, some, close) ==
    \A p, q \in Positions(open, some) :
        p < q => \E r \in Positions(close, "ok") : p < r /\ r < q

\* C14: a fetch is issued only with no row group and no column writer open:
\* the first call of a drive, or the call right after the report of the size of
\* the row group just closed, all columns of the batch before it written; a
\* row group is closed before the next is opened, a column writer before the
\* next is opened, and a column writer is open only inside an open row group.
C14_StrictlySequential ==
    /\ \A q \in 1..Len(trace) :
         trace[q].op = "fetch" =>
            \/ q = 1
            \/ /\ trace[q - 1].op = "update_current_file_size"
               /\ q - RowGroupStart(q) = 3 * Len(columns) + 4
    /\ ClosedBeforeReopened("next_row_group", "ok", "close_row_group")
    /\ ClosedBeforeReopened("next_column", "some", "close_column")
    /\ IsSome(writer) =>
         /\ pc \in {"fetch", "next_row_group", "close_box", "done"} =>
              (Sink.open = None /\ Sink.column = None)
         /\ pc \in {"fetch", "next_row_group", "close_box", "done"} =>
              Len(Sink.reported) = Len(Sink.row_groups)
         /\ IsSome(Sink.column) => IsSome(Sink.open)
         /\ pc \in {"next_column", "close_row_group"} => Sink.column = None

\* the second fetch is being issued after the first batch of two columns was
\* written, its row group closed and its size reported
C14_Witness ==
    /\ pc = "fetch"
    /\ Len(columns) = 2
    /\ Len(Batches) = 1
    /\ Len(Sink.row_groups) = 1
    /\ Len(Sink.reported) = 1
    /\ Sink.open = None

\* ---------------------------------------------------------------- the table
\* C15: whenever a step ends with a constructed TableStrategy, its schema has as
\* many fields as it has (name, strategy) entries and as the source has columns,
\* at least one, field i and entry i both being column i under the same name;
\* and if the TableStrategy was there before the step (a step of parquet_schema,
\* allocate_fetch_buffer or a drive, failing or not), the step left the entries
\* and the schema as they were.
C15_TableImmutable ==
    [][Constructed' =>
         /\ Len(Unwrap(parquet_schema')) = Len(columns')
         /\ Len(columns') = Len(source')
         /\ Len(columns') >= 1
         /\ \A i \in 1..Len(columns') :
              /\ Unwrap(parquet_schema')[i].name = columns'[i].name
              /\ Unwrap(parquet_schema')[i].col = i
              /\ columns'[i].strategy.col = i
         /\ Constructed =>
              /\ columns' = columns
              /\ parquet_schema' = parquet_schema
              /\ source' = source]_vars

\* a drive over a two-column table has run and returned, and the schema has
\* been read again for the next sink
C15_Witness ==
    /\ Constructed
    /\ pc = "ready"
    /\ Len(columns) = 2
    /\ IsSome(writer)
    /\ IsSome(fetch_buffer)
    /\ Unwrap(fetch_buffer).rows[1] # 0

\* ---------------------------------------------------------------- buffers
\* block_cursor_to_parquet has been entered and its result not yet taken
InDrive ==
    pc \in {"fetch", "next_row_group", "batch_ready", "next_column", "convert",
            "close_column", "close_row_group", "update_current_file_size", "close_box",
            "done", "failed", "panicked"}

\* C16: the step that enters the drive creates the scratch buffer, empty and of
\* the capacity of the fetch buffer bound to the cursor, before any fetch; no
\* later step of the drive changes the capacity of the scratch buffer, nor the
\* capacity or the layout of the fetch buffer, however many batches follow.
C16_BuffersAllocatedOnce ==
    [][/\ (~InDrive /\ InDrive') =>
            /\ pb' = [capacity |-> Unwrap(fetch_buffer).capacity, num_rows_fetched |-> 0]
            /\ Unwrap(fetch_buffer').capacity = Unwrap(fetch_buffer).capacity
            /\ trace' = <<>>
       /\ (InDrive /\ InDrive') =>
            /\ pb'.capacity = pb.capacity
            /\ pb'.capacity = Unwrap(fetch_buffer').capacity
            /\ Unwrap(fetch_buffer').capacity = Unwrap(fetch_buffer).capacity
            /\ Unwrap(fetch_buffer').descs = Unwrap(fetch_buffer).descs
            /\ Len(Unwrap(fetch_buffer').rows) = Unwrap(fetch_buffer).capacity]_vars

\* in the second batch, of one row, the scratch buffer still has its capacity of two
C16_Witness ==
    /\ pc = "next_column"
    /\ Len(Batches) = 2
    /\ pb = [capacity |-> 2, num_rows_fetched |-> 1]
    /\ Unwrap(fetch_buffer).capacity = 2
    /\ Unwrap(fetch_buffer).num_rows = 1

\* ---------------------------------------------------------------- any sink
\* the program with sinks of any number of columns
NextAnySink == Next \/ ForeignSink

SpecAnySink == Init /\ [][NextAnySink]_vars

\* C17: with a sink of as many fields as the schema (N), col_index is within
\* 0 .. N-1 wherever the schema fields, the fetched block and the strategies are
\* indexed, is N when the row group is closed, and nothing panics; a sink of
\* more fields makes the indexing of line 132 panic at col_index = N, before
\* any row group is closed; a sink of fewer fields (M) has its row groups closed
\* at col_index = M with the columns M .. N-1 unwritten.
C17_ColumnIndexInRange ==
    (IsSome(writer) /\ InDrive) =>
        LET N == Len(columns)
            M == Len(Sink.fields)
        IN
        /\ pc \in {"convert", "close_column"} => (col_index >= 0 /\ col_index <= N - 1)
        /\ pc \in {"next_column", "close_row_group"} => (col_index >= 0 /\ col_index <= N)
        /\ M = N =>
             /\ pc # "panicked"
             /\ pc = "close_row_group" => col_index = N
             /\ \A j \in 1..Len(Sink.row_groups) : Len(Sink.row_groups[j].columns) = N
        /\ pc = "panicked" =>
             /\ M > N
             /\ col_index = N
             /\ LastCall = Event("next_column", N, "some", "")
        /\ M > N =>
             /\ pc \notin {"close_row_group", "update_current_file_size"}
             /\ Sink.row_groups = <<>>
             /\ (Len(trace) >= 1 /\ LastCall = Event("next_column", N, "some", ""))
                   => pc = "panicked"
        /\ M < N =>
             /\ pc # "panicked"
             /\ pc = "close_row_group" => col_index = M
             /\ \A j \in 1..Len(Sink.row_groups) : Len(Sink.row_groups[j].columns) = M

\* a sink of three fields under a table of two columns: the third column writer
\* sends line 132 past the last schema field
C17_Witness ==
    /\ pc = "panicked"
    /\ Len(columns) = 2
    /\ Len(Sink.fields) = 3
    /\ col_index = 2

\* every column chunk the sink holds in a closed or an open row group
Chunks ==
    LET groups == IF IsSome(Sink.open) THEN Append(Sink.row_groups, OpenRowGroup)
                  ELSE Sink.row_groups
    IN {<<j, k>> \in (1..Len(groups)) \X (1..MaxCols) : k <= Len(groups[j].columns)}
Chunk(j, k) ==
    IF j <= Len(Sink.row_groups) THEN Sink.row_groups[j].columns[k]
    ELSE OpenRowGroup.columns[k]

\* C18: column i of an allocated fetch buffer has the descriptor of strategy i;
\* schema field i carries the name stored with strategy i; in a drive the i-th
\* column writer of a row group is written by strategy i from the view of
\* fetch-buffer column i and by nothing else; a conversion error for column i
\* names schema field i.
C18_PositionalAlignment ==
    /\ IsSome(fetch_buffer) =>
         /\ Len(Unwrap(fetch_buffer).descs) = Len(columns)
         /\ \A i \in 1..Len(columns) : Unwrap(fetch_buffer).descs[i] = columns[i].strategy
    /\ Constructed =>
         /\ Len(Unwrap(parquet_schema)) = Len(columns)
         /\ \A i \in 1..Len(columns) :
              /\ Unwrap(parquet_schema)[i].name = columns[i].name
              /\ Unwrap(parquet_schema)[i].col = columns[i].strategy.col
              /\ columns[i].strategy.col = i
    /\ (IsSome(writer) /\ InDrive) =>
         /\ \A c \in Chunks :
              /\ Chunk(c[1], c[2]).position = c[2] - 1
              /\ Chunk(c[1], c[2]).strategy = c[2]
              /\ Chunk(c[1], c[2]).view = c[2]
         /\ pc = "convert" =>
              /\ Unwrap(Sink.column).position = col_index
              /\ ~Converted(Unwrap(Sink.column))
              /\ col_name = columns[col_index + 1].name
         /\ pc = "close_column" =>
              /\ Unwrap(Sink.column).position = col_index
              /\ Unwrap(Sink.column).strategy = columns[col_index + 1].strategy.col
              /\ Unwrap(Sink.column).view = col_index + 1
              /\ Unwrap(fetch_buffer).descs[Unwrap(Sink.column).view]
                    = columns[col_index + 1].strategy
         /\ (Failed /\ LastCall.op = "convert") =>
              /\ LastCall.arg = col_index
              /\ DriveError.context =
                    <<CopyContext(Unwrap(parquet_schema)[col_index + 1].name)>>
              /\ Unwrap(parquet_schema)[col_index + 1].name = columns[col_index + 1].name

\* two columns of different layouts, the first written, the conversion of the
\* second, "amount", failed
C18_Witness ==
    /\ Failed
    /\ LastCall.op = "convert"
    /\ col_index = 1
    /\ Len(columns) = 2
    /\ columns[1].strategy.bytes_per_row # columns[2].strategy.bytes_per_row
    /\ columns[2].name = "amount"
    /\ Len(OpenRowGroup.columns) = 1
    /\ OpenRowGroup.columns[1].strategy = 1

\* ---------------------------------------------------------------- termination
\* one step of a running block_cursor_to_parquet
DriveStep ==
    \/ FetchBatch
    \/ FetchEnd
    \/ FetchFail
    \/ NextRowGroup
    \/ BatchReady
    \/ NextColumn
    \/ Convert
    \/ CloseColumn
    \/ CloseRowGroup
    \/ UpdateCurrentFileSize
    \/ CloseBox

\* a call that has started runs on: the function is sequential code, and every
\* call it makes on the cursor or the sink returns
FairSpecAnySink == SpecAnySink /\ WF_vars(DriveStep)

Running ==
    pc \in {"fetch", "next_row_group", "batch_ready", "next_column", "convert",
            "close_column", "close_row_group", "update_current_file_size", "close_box"}
Terminated == pc \in {"done", "failed"}

\* C19 as stated, for any sink of finitely many column writers per row group:
\* a running drive ends in Done or in Failed
C19_Original == Running ~> Terminated

\* C19: with a source of finitely many batches and a sink of at most as many
\* column writers per row group as the schema has fields, a running drive ends
\* in Done, having closed the sink and returned Ok, or in Failed, having
\* returned an error; Done is never reached with the sink unclosed; the only
\* other way the drive stops is the panic under a sink of more column writers.
C19_TerminatesDoneOrFailed ==
    /\ [](pc = "done" =>
            /\ result = Some(Ok)
            /\ Sink.closed
            /\ Sink.close_calls = 1
            /\ LastCall = Event("close_box", 0, "ok", ""))
    /\ [](pc = "failed" =>
            /\ IsSome(result)
            /\ ~Unwrap(result).ok
            /\ ~Sink.closed
            /\ LastCall.ret = "err")
    /\ [](pc = "panicked" => Len(Sink.fields) > Len(columns))
    /\ (Running /\ Len(Sink.fields) <= Len(columns)) ~> Terminated

\* two batches written to a sink of the schema's two columns, the sink closed
C19_Witness ==
    /\ pc = "done"
    /\ Sink.closed
    /\ Len(Sink.fields) = 2
    /\ Len(columns) = 2
    /\ Len(Sink.row_groups) = 2
    /\ result = Some(Ok)

\* ---------------------------------------------------------------- running totals
\* the state in which lines 128-129 log the totals of a batch: its row group is
\* open and none of its columns has been asked for
LogPoint ==
    /\ pc = "next_column"
    /\ col_index = 0
    /\ LastCall.op = "next_row_group"

\* C20: where the running totals are logged, total_rows_fetched is
\* num_batch * batch_size_row + num_rows, batch_size_row being the row capacity
\* of the fetch buffer and num_rows the row count of the current batch.
C20_TotalFromBatchOrdinal ==
    LogPoint =>
        total_rows_fetched = num_batch * Unwrap(fetch_buffer).capacity + num_rows

====
